---------------------------- MODULE Spec2Model ----------------------------
(***************************************************************************)
(* Model of gsp_inventory.py: a one-shot command line utility that loads   *)
(* an inventory spreadsheet, cleans three columns, writes a delimited text *)
(* file and optionally deletes the source file.                            *)
(*                                                                         *)
(* Strings whose characters matter (delimiters) are sequences of one       *)
(* character strings; paths and messages are atoms.  Floating point cell   *)
(* values are kept in tenths (27 stands for 2.7).  The interpreter version *)
(* is kept in tenths as well (35 stands for 3.5).                          *)
(***************************************************************************)
EXTENDS Integers, Sequences, FiniteSets, TLC

(***************************************************************************)
(* Bounds of the model.                                                    *)
(***************************************************************************)
MaxArgs == 2

MaxDelimLen == 2

MaxRows == 2

VARIABLES
    pc,                 \* position of the process (phase reached or exit site)
    phases,             \* history: the phases entered so far, in order
    exitStatus,         \* process exit status, NoStatus while running
    PYTHON_VERSION,     \* module global, line 65 (tenths)
    PLATFORM,           \* module global, lines 66-69 ("undefined" = name unbound)
    argv,               \* sys.argv[1:], as parsed units
    files,              \* the file system
    LOGGER,             \* the Logger instance: log file, terminal, verbose
    inputFilePath,      \* locals of parseArgs / main
    outputFilePath,
    delimiter,
    preserveOldFiles,
    verbose,
    sheet,              \* what pd.read_excel returned (kept for reference)
    data,               \* the in-memory table main works on
    vdArgs,             \* arguments of a direct validateDelimiter call
    vdRet               \* its return value

vars == <<pc, phases, exitStatus, PYTHON_VERSION, PLATFORM, argv, files, LOGGER,
          inputFilePath, outputFilePath, delimiter, preserveOldFiles, verbose,
          sheet, data, vdArgs, vdRet>>

\* No exit status yet: the process is still running.
NoStatus == -1

Range(s) == {s[i] : i \in DOMAIN s}

RECURSIVE SeqsUpTo(_, _)
SeqsUpTo(S, n) ==
    IF n = 0 THEN {<<>>}
    ELSE LET shorter == SeqsUpTo(S, n - 1)
         IN  shorter \cup {Append(q, x) : q \in shorter, x \in S}

(***************************************************************************)
(* Logger (lines 303-445).                                                 *)
(***************************************************************************)
HELP_MESSAGE == "HELP_MESSAGE"

NewLogger ==
    [log |-> << [ind |-> "raw", msg |-> "header"] >>,
     terminal |-> <<>>,
     verbose |-> FALSE]

\* Logger.write: to the terminal only when verbose, always to the log file.
write(L, message) ==
    [L EXCEPT !.terminal = IF L.verbose THEN Append(@, message) ELSE @,
              !.log = Append(@, [ind |-> "raw", msg |-> message])]

Indicator(severity) ==
    CASE severity = "normal" -> "N"
      [] severity = "warning" -> "W"
      [] severity = "error" -> "X"
      [] severity = "code-breaker" -> "!"

\* Logger.writeLog: the formatted line goes to the log file, the bare
\* message to the terminal when verbose.
writeLog(L, message, severity) ==
    [L EXCEPT !.log = Append(@, [ind |-> Indicator(severity), msg |-> message]),
              !.terminal = IF L.verbose THEN Append(@, message) ELSE @]

\* print(x) with sys.stdout = LOGGER (line 451): the text, then the newline.
print(L, message) == write(write(L, message), "\n")

\* Logger.exceptionLogger, installed as sys.excepthook (line 452).
exceptionLogger(L, exctype) ==
    write(write(write(write(L, "Exception Occured! Details follow below.\n"),
          exctype), "Value"), "Traceback:\n")

RECURSIVE writeLogAll(_, _)
writeLogAll(L, messages) ==
    IF messages = <<>> THEN L
    ELSE writeLogAll(writeLog(L, Head(messages), "normal"), Tail(messages))

(***************************************************************************)
(* validateDelimiter (lines 243-273).                                      *)
(***************************************************************************)
TAB == <<"\t">>

COMMA == <<",">>

\* Variant: the space is not accepted.
acceptableDelimitersNoSpace == {<<",">>, <<"\t">>, <<":">>, <<"|">>}

acceptableDelimiters == {<<",">>, <<"\t">>, <<":">>, <<"|">>, <<" ">>}

normalizeTab(d) == IF d = <<"\\", "t">> THEN TAB ELSE d

\* Variant: an oversized delimiter falls back to the caller's default.
validateDelimiterLongGivesDefault(L, d, defaultDilimiter) ==
    LET n == normalizeTab(d) IN
    IF Len(n) > 1 \/ n \notin acceptableDelimiters
    THEN [delimiter |-> defaultDilimiter,
          LOGGER |-> writeLog(L, "Delimiter was not selected from acceptable options", "warning")]
    ELSE [delimiter |-> n, LOGGER |-> L]

\* Variant: a delimiter outside the accepted ones falls back to the comma.
validateDelimiterAlwaysComma(L, d, defaultDilimiter) ==
    LET n == normalizeTab(d) IN
    IF Len(n) > 1 \/ n \notin acceptableDelimiters
    THEN [delimiter |-> COMMA,
          LOGGER |-> writeLog(L, "Delimiter was not selected from acceptable options", "warning")]
    ELSE [delimiter |-> n, LOGGER |-> L]

\* The result: the delimiter returned and the Logger after the call.
validateDelimiter(L, d, defaultDilimiter) ==
    LET n == normalizeTab(d) IN
    IF Len(n) > 1
    THEN [delimiter |-> COMMA,
          LOGGER |-> writeLog(L, "Length of the delimiter was greater than one character", "warning")]
    ELSE IF n \notin acceptableDelimiters
    THEN [delimiter |-> defaultDilimiter,
          LOGGER |-> writeLog(L, "Delimiter was not selected from acceptable options", "warning")]
    ELSE [delimiter |-> n, LOGGER |-> L]

(***************************************************************************)
(* The file system, as far as os.path and the file operations see it.      *)
(***************************************************************************)
inputFileExtension == ".xls"

inputDefaultPath == "~/Downloads/GSPInventoryFeed.xls"

outputDefaultPath == "~/Downloads/gsp_inventory.tsv"

Paths ==
    {"", "~/Downloads", inputDefaultPath, outputDefaultPath,
     "/tmp", "/tmp/a.xls", "/tmp/b.csv", "/tmp/dir.xls", "/tmp/missing.xls",
     "/tmp/o.tsv", "/nodir", "/nodir/o.tsv", "o.tsv"}

\* os.path.dirname
dirname(p) ==
    CASE p \in {inputDefaultPath, outputDefaultPath} -> "~/Downloads"
      [] p \in {"/tmp/a.xls", "/tmp/b.csv", "/tmp/dir.xls", "/tmp/missing.xls",
                "/tmp/o.tsv"} -> "/tmp"
      [] p = "/nodir/o.tsv" -> "/nodir"
      [] p \in {"/tmp", "/nodir", "~/Downloads"} -> "/"
      [] OTHER -> ""

\* str.endswith(inputFileExtension)
endswith(p, ext) ==
    ext = ".xls" /\ p \in {inputDefaultPath, "/tmp/a.xls", "/tmp/dir.xls", "/tmp/missing.xls"}

Absent == [kind |-> "absent", text |-> <<>>]

Directory == [kind |-> "dir", text |-> <<>>]

\* A regular file whose content is not a text table written by this run.
OtherFile == [kind |-> "file", text |-> <<>>]

\* os.path.exists: the root always exists, the empty path never does.
exists(fs, p) == IF p = "/" THEN TRUE ELSE fs[p].kind # "absent"

isdir(fs, p) == IF p = "/" THEN TRUE ELSE fs[p].kind = "dir"

\* The file systems a run may start in: the user's Downloads directory may
\* be missing, and the default input file may or may not be in it.
InitialFiles ==
    { [p \in Paths |->
          CASE p = "~/Downloads" -> IF downloads THEN Directory ELSE Absent
            [] p = inputDefaultPath -> IF downloads /\ feed THEN OtherFile ELSE Absent
            [] p \in {"/tmp", "/tmp/dir.xls"} -> Directory
            [] p \in {"/tmp/a.xls", "/tmp/b.csv"} -> OtherFile
            [] OTHER -> Absent]
      : downloads \in BOOLEAN, feed \in BOOLEAN }

(***************************************************************************)
(* The command line.  A unit is one option with its value (if it takes     *)
(* one), or a positional argument.                                         *)
(***************************************************************************)
Flag(o) == [opt |-> o, hasVal |-> FALSE, path |-> "", delim |-> <<>>]

PathOpt(o, p) == [opt |-> o, hasVal |-> TRUE, path |-> p, delim |-> <<>>]

DelimOpt(o, d) == [opt |-> o, hasVal |-> TRUE, path |-> "", delim |-> d]

Positional == Flag("extra")

ArgUnits ==
    {Flag("-h"), Flag("--help"), Flag("-p"), Flag("--verbose"),
     PathOpt("-i", "/tmp/a.xls"), PathOpt("--input", "/tmp/b.csv"),
     PathOpt("-i", "/tmp/dir.xls"), PathOpt("-i", "/tmp/missing.xls"),
     PathOpt("-o", "/tmp/o.tsv"), PathOpt("--output", "/nodir/o.tsv"),
     PathOpt("-o", "/tmp"), PathOpt("-o", "/tmp/a.xls"), PathOpt("-o", "o.tsv"),
     DelimOpt("-d", <<";", ";">>), DelimOpt("-d", <<";">>),
     DelimOpt("--delimiter", <<"\\", "t">>), DelimOpt("-d", <<":">>),
     Flag("-x"), Flag("-d"), Positional}

\* An option that lacks its value can only be the last token: anywhere else
\* the next token would be taken as the value.
Argvs ==
    {a \in SeqsUpTo(ArgUnits, MaxArgs) :
        \A i \in DOMAIN a :
            (a[i].opt \in {"-i", "-o", "-d"} /\ ~a[i].hasVal) => i = Len(a)}

\* options = "hi:o:d:vp", long_options (lines 162-163)
optionsNoArg == {"-h", "-v", "-p", "--help", "--verbose", "--preserve"}

optionsWithArg == {"-i", "-o", "-d", "--input", "--output", "--delimiter"}

\* getopt.getopt: options are read up to the first positional argument; an
\* unknown option or an option lacking its value raises GetoptError.
RECURSIVE getopt(_)
getopt(args) ==
    IF args = <<>> \/ Head(args) = Positional
    THEN [error |-> FALSE, opts |-> <<>>]
    ELSE LET u == Head(args)
             rest == getopt(Tail(args))
         IN  IF \/ u.opt \notin optionsNoArg \cup optionsWithArg
                \/ (u.opt \in optionsWithArg /\ ~u.hasVal)
                \/ rest.error
             THEN [error |-> TRUE, opts |-> <<>>]
             ELSE [error |-> FALSE, opts |-> <<u>> \o rest.opts]

(***************************************************************************)
(* parseArgs (lines 143-240).                                              *)
(***************************************************************************)
defaultDilimiter == TAB

\* The locals of parseArgs at line 191, with the Logger it works on.
parseArgsLocals(L) ==
    [inputFilePath |-> inputDefaultPath,
     outputFilePath |-> outputDefaultPath,
     delimiter |-> defaultDilimiter,
     verbose |-> FALSE,
     preserveOldFiles |-> FALSE,
     LOGGER |-> L,
     exit |-> "none"]

\* One iteration of the loop of lines 202-218.
handleOption(st, u) ==
    IF u.opt = "-h"
    THEN [st EXCEPT !.LOGGER = print([@ EXCEPT !.verbose = TRUE], HELP_MESSAGE),
                    !.exit = "207"]
    ELSE IF u.opt \in {"-i", "--input"} THEN [st EXCEPT !.inputFilePath = u.path]
    ELSE IF u.opt \in {"-o", "--output"} THEN [st EXCEPT !.outputFilePath = u.path]
    ELSE IF u.opt \in {"-d", "--delimiter"}
    THEN LET r == validateDelimiter(st.LOGGER, u.delim, defaultDilimiter)
         IN  [st EXCEPT !.delimiter = r.delimiter, !.LOGGER = r.LOGGER]
    ELSE IF u.opt \in {"-p", "--preserve"} THEN [st EXCEPT !.preserveOldFiles = TRUE]
    ELSE IF u.opt \in {"-v", "--verbose"} THEN [st EXCEPT !.verbose = TRUE]
    ELSE st

RECURSIVE optionLoop(_, _)
optionLoop(st, opts) ==
    IF opts = <<>> \/ st.exit # "none" THEN st
    ELSE optionLoop(handleOption(st, Head(opts)), Tail(opts))

\* Lines 220-230: the Logger takes the verbose setting, then the input path
\* is validated.
validateInput(st, fs) ==
    LET s1 == [st EXCEPT !.LOGGER.verbose = st.verbose] IN
    IF \/ ~exists(fs, s1.inputFilePath)
       \/ isdir(fs, s1.inputFilePath)
       \/ ~endswith(s1.inputFilePath, inputFileExtension)
    THEN [s1 EXCEPT !.LOGGER = writeLog(@, "Invalid file path", "code-breaker"),
                    !.exit = "230"]
    ELSE s1

\* Lines 232-238: the output path falls back to the default.
validateOutput(st, fs) ==
    IF ~exists(fs, dirname(st.outputFilePath)) \/ isdir(fs, st.outputFilePath)
    THEN [st EXCEPT !.LOGGER = writeLog(@, "Invalid output file path", "warning"),
                    !.outputFilePath = outputDefaultPath]
    ELSE st

parseArgs(L, args, fs) ==
    LET g == getopt(args)
        st0 == parseArgsLocals(L)
    IN  IF g.error
        THEN [st0 EXCEPT !.LOGGER = print(print(L, "Error in arguments!"), HELP_MESSAGE),
                         !.exit = "200"]
        ELSE LET st1 == optionLoop(st0, g.opts) IN
             IF st1.exit # "none" THEN st1
             ELSE LET st2 == validateInput(st1, fs) IN
                  IF st2.exit # "none" THEN st2
                  ELSE validateOutput(st2, fs)

(***************************************************************************)
(* The table (a pandas DataFrame) and the steps main applies to it.        *)
(***************************************************************************)
NaN == [t |-> "nan", n |-> 0, s |-> ""]

StrCell(x) == [t |-> "str", n |-> 0, s |-> x]

\* A floating point cell, in tenths.
FloatCell(tenths) == [t |-> "float", n |-> tenths, s |-> ""]

IntCell(k) == [t |-> "int", n |-> k, s |-> ""]

columnList == <<"Site", "ItemNumber", "QuantityOnHand">>

\* The column layouts a sheet may have: the three columns, the three columns
\* in another order among others, a sheet lacking a column.
Layouts ==
    {<<"Site", "ItemNumber", "QuantityOnHand">>,
     <<"QuantityOnHand", "Extra", "Site", "ItemNumber">>,
     <<"Site", "ItemNumber">>}

CellValues(column) ==
    CASE column = "Site" -> {NaN, StrCell("A")}
      [] column = "ItemNumber" -> {NaN, StrCell("100")}
      [] column = "QuantityOnHand" -> {NaN, FloatCell(27), FloatCell(-15), StrCell("n/a")}
      [] OTHER -> {StrCell("x")}

RowsFor(cols) ==
    {r \in [Range(cols) -> UNION {CellValues(c) : c \in Range(cols)}] :
        \A c \in Range(cols) : r[c] \in CellValues(c)}

Tables(maxRows) ==
    UNION {{[cols |-> c, rows |-> r] : r \in SeqsUpTo(RowsFor(c), maxRows)} : c \in Layouts}

NoTable == [cols |-> <<>>, rows |-> <<>>]

\* Series.fillna(value, inplace=True) on one column.
fillna(d, column, value) ==
    [d EXCEPT !.rows = [i \in DOMAIN d.rows |->
        [d.rows[i] EXCEPT ![column] = IF @ = NaN THEN value ELSE @]]]

\* Variant: rounding down instead of truncating.
floorTenths(x) == x \div 10

\* int(x) of a float truncates toward zero.
truncTenths(x) == IF x >= 0 THEN x \div 10 ELSE -((-x) \div 10)

\* What astype(int) makes of one cell; text that is no number and a missing
\* value make it raise.
astypeIntCell(c) ==
    CASE c.t = "float" -> IntCell(truncTenths(c.n))
      [] c.t = "int" -> c
      [] OTHER -> [t |-> "raise", n |-> 0, s |-> ""]

astypeInt(d, column) ==
    [d EXCEPT !.rows = [i \in DOMAIN d.rows |->
        [d.rows[i] EXCEPT ![column] = astypeIntCell(@)]]]

\* Lines 115-120.  The result is the table as the step leaves it and the
\* exception raised, if any.
cleanData(d) ==
    IF "Site" \notin Range(d.cols) THEN [data |-> d, raised |-> "KeyError"]
    ELSE LET d1 == fillna(d, "Site", StrCell("")) IN
    IF "ItemNumber" \notin Range(d.cols) THEN [data |-> d1, raised |-> "KeyError"]
    ELSE LET d2 == fillna(d1, "ItemNumber", StrCell("")) IN
    IF "QuantityOnHand" \notin Range(d.cols) THEN [data |-> d2, raised |-> "KeyError"]
    ELSE LET d3 == fillna(d2, "QuantityOnHand", IntCell(0))
             d4 == astypeInt(d3, "QuantityOnHand")
         IN  IF \E i \in DOMAIN d4.rows : d4.rows[i]["QuantityOnHand"].t = "raise"
             THEN [data |-> d3, raised |-> "ValueError"]
             ELSE [data |-> d4, raised |-> ""]

\* How to_csv renders one cell: integers as digits, text as it is, floats
\* with float_format '%.2f' (kept in hundredths), a missing value as nothing.
formatCell(c) ==
    CASE c.t = "int" -> [t |-> "digits", n |-> c.n, s |-> ""]
      [] c.t = "float" -> [t |-> "fixed2", n |-> c.n * 10, s |-> ""]
      [] c.t = "str" -> [t |-> "chars", n |-> 0, s |-> c.s]
      [] OTHER -> [t |-> "chars", n |-> 0, s |-> ""]

\* DataFrame.to_csv(columns=columnList, sep=delimiter, line_terminator='\r\n',
\* index=False): the text written.
to_csv(d, columns, sep) ==
    [header |-> columns,
     sep |-> sep,
     line_terminator |-> "\r\n",
     rows |-> [i \in DOMAIN d.rows |->
                  [j \in DOMAIN columns |-> formatCell(d.rows[i][columns[j]])]]]

\* The sheets the input file may hold in a full run.
SampleSheets ==
    {[cols |-> columnList,
      rows |-> << [Site |-> StrCell("A"), ItemNumber |-> StrCell("100"), QuantityOnHand |-> FloatCell(50)],
                  [Site |-> StrCell("B"), ItemNumber |-> NaN, QuantityOnHand |-> NaN] >>],
     [cols |-> columnList, rows |-> <<>>],
     [cols |-> <<"QuantityOnHand", "Extra", "Site", "ItemNumber">>,
      rows |-> << [QuantityOnHand |-> FloatCell(-15), Extra |-> StrCell("x"),
                   Site |-> NaN, ItemNumber |-> StrCell("100")] >>],
     [cols |-> <<"Site", "ItemNumber">>,
      rows |-> << [Site |-> StrCell("A"), ItemNumber |-> StrCell("100")] >>],
     [cols |-> columnList,
      rows |-> << [Site |-> StrCell("A"), ItemNumber |-> StrCell("100"), QuantityOnHand |-> StrCell("n/a")] >>]}

(***************************************************************************)
(* The process: module initialisation, then main (lines 72-140).           *)
(***************************************************************************)
\* Before line 449 there is no Logger and no log file.
NoLogger == [log |-> <<>>, terminal |-> <<>>, verbose |-> FALSE]

Init ==
    /\ pc = "Import"
    /\ phases = <<>>
    /\ exitStatus = NoStatus
    /\ PYTHON_VERSION \in {34, 38}
    /\ PLATFORM \in {"windows", "linux", "undefined"}
    /\ argv \in Argvs
    /\ files \in InitialFiles
    /\ LOGGER = NoLogger
    /\ inputFilePath = ""
    /\ outputFilePath = ""
    /\ delimiter = <<>>
    /\ preserveOldFiles = FALSE
    /\ verbose = FALSE
    /\ sheet = NoTable
    /\ data = NoTable
    /\ vdArgs = [delimiter |-> <<>>, defaultDilimiter |-> <<>>]
    /\ vdRet = <<>>

\* An exception nobody handles: the hook of line 452 writes it through the
\* Logger and the interpreter exits with status 1.
Crash(exctype) ==
    /\ pc' = "Crashed"
    /\ exitStatus' = 1
    /\ LOGGER' = exceptionLogger(LOGGER, exctype)

\* Lines 61-69 and 449-453.  On a platform that is neither Windows nor Linux
\* PLATFORM stays unbound and getLogPath returns None, so that open() raises
\* in Logger.__init__: no log file exists and no hook is installed yet.
ModuleInit ==
    /\ pc = "Import"
    /\ IF PLATFORM = "undefined"
       THEN /\ pc' = "Crashed"
            /\ exitStatus' = 1
            /\ UNCHANGED <<phases, LOGGER>>
       ELSE /\ pc' = "Init"
            /\ phases' = <<"Init">>
            /\ LOGGER' = NewLogger
            /\ UNCHANGED exitStatus
    /\ UNCHANGED <<PYTHON_VERSION, PLATFORM, argv, files, inputFilePath, outputFilePath,
                   delimiter, preserveOldFiles, verbose, sheet, data, vdArgs, vdRet>>

\* checkPlatformAndPythonVersion (lines 276-297) and line 97.
CheckEnv ==
    /\ pc = "Init"
    /\ IF ~(PYTHON_VERSION >= 35)
       THEN /\ LOGGER' = writeLog(LOGGER, "Must use Python version 3.5 or higher!", "code-breaker")
            /\ pc' = "Exit292"
            /\ exitStatus' = 0
            /\ UNCHANGED phases
       ELSE IF PLATFORM = "undefined"
       THEN Crash("NameError") /\ UNCHANGED phases
       ELSE IF PLATFORM \notin {"windows", "linux"}
       THEN /\ LOGGER' = writeLogAll(writeLog(LOGGER, "Please use Windows or Linux platform.", "code-breaker"),
                                     <<"Platform type and python version verified.">>)
            /\ pc' = "VersionCheck"
            /\ phases' = Append(phases, "VersionCheck")
            /\ UNCHANGED exitStatus
       ELSE /\ LOGGER' = writeLog(LOGGER, "Platform type and python version verified.", "normal")
            /\ pc' = "VersionCheck"
            /\ phases' = Append(phases, "VersionCheck")
            /\ UNCHANGED exitStatus
    /\ UNCHANGED <<PYTHON_VERSION, PLATFORM, argv, files, inputFilePath, outputFilePath,
                   delimiter, preserveOldFiles, verbose, sheet, data, vdArgs, vdRet>>

\* Lines 101-108.
argsReport ==
    <<"Args parsed...", "Input file path", "Output file path", "Using delimiter",
      "Preserve input file", "Verbose", "===============">>

\* Lines 100-108: parseArgs and the report of what it returned.  exit() and
\* sys.exit() without an argument end the process with status 0.
ParseArgsStep ==
    /\ pc = "VersionCheck"
    /\ LET st == parseArgs(LOGGER, argv, files) IN
       /\ inputFilePath' = st.inputFilePath
       /\ outputFilePath' = st.outputFilePath
       /\ delimiter' = st.delimiter
       /\ preserveOldFiles' = st.preserveOldFiles
       /\ verbose' = st.verbose
       /\ IF st.exit # "none"
          THEN /\ pc' = "Exit" \o st.exit
               /\ exitStatus' = 0
               /\ LOGGER' = st.LOGGER
               /\ UNCHANGED phases
          ELSE /\ pc' = "ArgsParsed"
               /\ phases' = Append(phases, "ArgsParsed")
               /\ LOGGER' = writeLogAll(st.LOGGER, argsReport)
               /\ UNCHANGED exitStatus
    /\ UNCHANGED <<PYTHON_VERSION, PLATFORM, argv, files, sheet, data, vdArgs, vdRet>>

\* Lines 111-112: pd.read_excel returns the sheet the file holds, or raises
\* when the file is no spreadsheet.
LoadStep ==
    /\ pc = "ArgsParsed"
    /\ \/ \E t \in SampleSheets :
             /\ sheet' = t
             /\ data' = t
             /\ pc' = "Loaded"
             /\ phases' = Append(phases, "Loaded")
             /\ LOGGER' = writeLog(LOGGER, "File loaded...", "normal")
             /\ UNCHANGED exitStatus
       \/ /\ Crash("XLRDError")
          /\ UNCHANGED <<sheet, data, phases>>
    /\ UNCHANGED <<PYTHON_VERSION, PLATFORM, argv, files, inputFilePath, outputFilePath,
                   delimiter, preserveOldFiles, verbose, vdArgs, vdRet>>

\* Lines 115-121.
CleanStep ==
    /\ pc = "Loaded"
    /\ LET r == cleanData(data) IN
       /\ data' = r.data
       /\ IF r.raised # ""
          THEN Crash(r.raised) /\ UNCHANGED phases
          ELSE /\ pc' = "Cleaned"
               /\ phases' = Append(phases, "Cleaned")
               /\ LOGGER' = writeLog(LOGGER, "Data processed.", "normal")
               /\ UNCHANGED exitStatus
    /\ UNCHANGED <<PYTHON_VERSION, PLATFORM, argv, files, inputFilePath, outputFilePath,
                   delimiter, preserveOldFiles, verbose, sheet, vdArgs, vdRet>>

\* Lines 124-134: to_csv opens the output path for writing, which raises
\* when its directory is missing or the path is a directory.
WriteStep ==
    /\ pc = "Cleaned"
    /\ IF ~exists(files, dirname(outputFilePath)) \/ isdir(files, outputFilePath)
       THEN Crash("OSError") /\ UNCHANGED <<files, phases>>
       ELSE /\ files' = [files EXCEPT ![outputFilePath] =
                            [kind |-> "file", text |-> <<to_csv(data, columnList, delimiter)>>]]
            /\ pc' = "Written"
            /\ phases' = Append(phases, "Written")
            /\ LOGGER' = writeLog(LOGGER, "File saved as .tsv at path", "normal")
            /\ UNCHANGED exitStatus
    /\ UNCHANGED <<PYTHON_VERSION, PLATFORM, argv, inputFilePath, outputFilePath,
                   delimiter, preserveOldFiles, verbose, sheet, data, vdArgs, vdRet>>

\* Variant: the input file is removed before the output is written.
RemoveStepEarly ==
    /\ pc \in {"Cleaned", "Written"}
    /\ IF ~preserveOldFiles
       THEN /\ files' = [files EXCEPT ![inputFilePath] = Absent]
            /\ pc' = "Deleted"
            /\ phases' = Append(phases, "Deleted")
            /\ LOGGER' = writeLog(LOGGER, "Removed input file.", "normal")
       ELSE /\ pc' = "Preserved"
            /\ phases' = Append(phases, "Preserved")
            /\ UNCHANGED <<files, LOGGER>>
    /\ UNCHANGED <<exitStatus, PYTHON_VERSION, PLATFORM, argv, inputFilePath, outputFilePath,
                   delimiter, preserveOldFiles, verbose, sheet, data, vdArgs, vdRet>>

\* Variant: the preserve flag is not consulted.
RemoveStepAlways ==
    /\ pc = "Written"
    /\ files[inputFilePath].kind = "file"
    /\ files' = [files EXCEPT ![inputFilePath] = Absent]
    /\ pc' = "Deleted"
    /\ phases' = Append(phases, "Deleted")
    /\ LOGGER' = writeLog(LOGGER, "Removed input file.", "normal")
    /\ UNCHANGED <<exitStatus, PYTHON_VERSION, PLATFORM, argv, inputFilePath, outputFilePath,
                   delimiter, preserveOldFiles, verbose, sheet, data, vdArgs, vdRet>>

\* Lines 136-139.
RemoveStep ==
    /\ pc = "Written"
    /\ IF ~preserveOldFiles
       THEN IF files[inputFilePath].kind # "file"
            THEN Crash("OSError") /\ UNCHANGED <<files, phases>>
            ELSE /\ files' = [files EXCEPT ![inputFilePath] = Absent]
                 /\ pc' = "Deleted"
                 /\ phases' = Append(phases, "Deleted")
                 /\ LOGGER' = writeLog(LOGGER, "Removed input file.", "normal")
                 /\ UNCHANGED exitStatus
       ELSE /\ pc' = "Preserved"
            /\ phases' = Append(phases, "Preserved")
            /\ UNCHANGED <<files, LOGGER, exitStatus>>
    /\ UNCHANGED <<PYTHON_VERSION, PLATFORM, argv, inputFilePath, outputFilePath,
                   delimiter, preserveOldFiles, verbose, sheet, data, vdArgs, vdRet>>

\* Line 140, and the normal end of the interpreter.
FinishStep ==
    /\ pc \in {"Deleted", "Preserved"}
    /\ pc' = "Done"
    /\ phases' = Append(phases, "Done")
    /\ LOGGER' = writeLog(LOGGER, "Execution complete - exitting.", "normal")
    /\ exitStatus' = 0
    /\ UNCHANGED <<PYTHON_VERSION, PLATFORM, argv, files, inputFilePath, outputFilePath,
                   delimiter, preserveOldFiles, verbose, sheet, data, vdArgs, vdRet>>

Next ==
    \/ ModuleInit
    \/ CheckEnv
    \/ ParseArgsStep
    \/ LoadStep
    \/ CleanStep
    \/ WriteStep
    \/ RemoveStep
    \/ FinishStep

Spec == Init /\ [][Next]_vars

(***************************************************************************)
(* validateDelimiter called on its own, with any delimiter and default.    *)
(***************************************************************************)
DelimChars == {",", "\t", ":", "|", " ", ";", "\\", "t"}

DelimInputs == SeqsUpTo(DelimChars, MaxDelimLen)

DelimDefaults == {TAB, COMMA, <<";">>}

\* A file system with the Downloads directory and the default input file.
UsualFiles == CHOOSE fs \in InitialFiles : fs[inputDefaultPath].kind = "file"

InitDelim ==
    /\ pc = "vd_call"
    /\ vdArgs \in [delimiter : DelimInputs, defaultDilimiter : DelimDefaults]
    /\ vdRet = <<>>
    /\ LOGGER \in {NewLogger, [NewLogger EXCEPT !.verbose = TRUE]}
    /\ phases = <<>>
    /\ exitStatus = NoStatus
    /\ PYTHON_VERSION = 38
    /\ PLATFORM = "linux"
    /\ argv = <<>>
    /\ files = UsualFiles
    /\ inputFilePath = ""
    /\ outputFilePath = ""
    /\ delimiter = <<>>
    /\ preserveOldFiles = FALSE
    /\ verbose = FALSE
    /\ sheet = NoTable
    /\ data = NoTable

ValidateDelimiterCall ==
    /\ pc = "vd_call"
    /\ LET r == validateDelimiter(LOGGER, vdArgs.delimiter, vdArgs.defaultDilimiter) IN
       /\ vdRet' = r.delimiter
       /\ LOGGER' = r.LOGGER
    /\ pc' = "vd_ret"
    /\ UNCHANGED <<phases, exitStatus, PYTHON_VERSION, PLATFORM, argv, files, inputFilePath,
                   outputFilePath, delimiter, preserveOldFiles, verbose, sheet, data, vdArgs>>

NextDelim == ValidateDelimiterCall

SpecDelim == InitDelim /\ [][NextDelim]_vars

(***************************************************************************)
(* The cleaning and writing steps of main on every sheet up to MaxRows     *)
(* rows, starting where line 112 leaves a run.                             *)
(***************************************************************************)
CleanArgvs ==
    {<<PathOpt("-i", "/tmp/a.xls"), PathOpt("-o", "/tmp/o.tsv"), Flag("-p")>>,
     <<DelimOpt("-d", <<":">>)>>}

InitClean ==
    /\ pc = "Loaded"
    /\ phases = <<"Init", "VersionCheck", "ArgsParsed", "Loaded">>
    /\ exitStatus = NoStatus
    /\ PYTHON_VERSION = 38
    /\ PLATFORM = "linux"
    /\ argv \in CleanArgvs
    /\ files = UsualFiles
    /\ LET st == parseArgs(writeLog(NewLogger, "Platform type and python version verified.", "normal"),
                           argv, files)
       IN  /\ inputFilePath = st.inputFilePath
           /\ outputFilePath = st.outputFilePath
           /\ delimiter = st.delimiter
           /\ preserveOldFiles = st.preserveOldFiles
           /\ verbose = st.verbose
           /\ LOGGER = writeLog(writeLogAll(st.LOGGER, argsReport), "File loaded...", "normal")
    /\ sheet \in Tables(MaxRows)
    /\ data = sheet
    /\ vdArgs = [delimiter |-> <<>>, defaultDilimiter |-> <<>>]
    /\ vdRet = <<>>

NextClean ==
    \/ CleanStep
    \/ WriteStep

SpecClean == InitClean /\ [][NextClean]_vars

(***************************************************************************)
(* Properties.                                                             *)
(***************************************************************************)
IsPrefix(p, q) == Len(p) <= Len(q) /\ \A i \in DOMAIN p : p[i] = q[i]

PhaseNames ==
    {"Init", "VersionCheck", "ArgsParsed", "Loaded", "Cleaned", "Written",
     "Deleted", "Preserved", "Done"}

OrderDeleted ==
    <<"Init", "VersionCheck", "ArgsParsed", "Loaded", "Cleaned", "Written", "Deleted", "Done">>

OrderPreserved ==
    <<"Init", "VersionCheck", "ArgsParsed", "Loaded", "Cleaned", "Written", "Preserved", "Done">>

Terminated == exitStatus # NoStatus

ParseArgsRan == pc \in {"Exit200", "Exit207", "Exit230"} \/ "ArgsParsed" \in Range(phases)

HasFatal(log) == \E i \in DOMAIN log : log[i].ind = "!"

\* C1: every run follows the phase order Init, VersionCheck, ArgsParsed,
\* Loaded, Cleaned, Written, then one of Deleted or Preserved, then Done: the
\* phases entered so far are always an initial part of that order (so none is
\* entered early or twice), the process stands at the last phase entered, and
\* Done comes only after Written.
C1_PhaseOrder ==
    /\ IsPrefix(phases, OrderDeleted) \/ IsPrefix(phases, OrderPreserved)
    /\ pc \in PhaseNames => (phases # <<>> /\ pc = phases[Len(phases)])
    /\ pc = "Done" => "Written" \in Range(phases)

C1_Witness == pc = "Done" /\ phases = OrderDeleted

\* C2: every validation failure before Loaded (interpreter version too old,
\* platform neither windows nor linux, input path missing, a directory or
\* without the .xls extension) writes a fatal log entry and ends the process;
\* the run reaches neither argument parsing (environment failures) nor Loaded
\* and leaves the file system as it was.
C2_FatalBeforeLoaded ==
    /\ ((PYTHON_VERSION < 35 \/ PLATFORM \notin {"windows", "linux"}) /\ pc \notin {"Import", "Init"})
          => /\ HasFatal(LOGGER.log)
             /\ Terminated
             /\ ~ParseArgsRan
             /\ files \in InitialFiles
    /\ (/\ "ArgsParsed" \in Range(phases) \/ pc = "Exit230"
        /\ files \in InitialFiles
        /\ \/ files[inputFilePath].kind # "file"
           \/ inputFilePath \notin {inputDefaultPath, "/tmp/a.xls", "/tmp/dir.xls", "/tmp/missing.xls"})
          => /\ LOGGER.log[Len(LOGGER.log)].ind = "!"
             /\ Terminated
             /\ "Loaded" \notin Range(phases)

\* C3: the exit status is 0 only for a successful conversion or a help
\* request; a run ended by a validation failure (rejected command line,
\* invalid input path, unsupported interpreter version) has a non-zero status.
C3_ExitStatus ==
    /\ exitStatus = 0 => pc \in {"Done", "Exit207"}
    /\ pc \in {"Exit200", "Exit230", "Exit292"} => (Terminated /\ exitStatus # 0)

\* The command line holds only well-formed options, one of them the help flag
\* in its short or long form.
HelpGiven ==
    /\ \A i \in DOMAIN argv :
          \/ argv[i].opt \in {"-h", "--help", "-p", "--preserve", "-v", "--verbose"}
          \/ argv[i].opt \in {"-i", "--input", "-o", "--output", "-d", "--delimiter"} /\ argv[i].hasVal
    /\ \E i \in DOMAIN argv : argv[i].opt \in {"-h", "--help"}

\* C4: whenever the help flag (-h or --help) is among the command line tokens,
\* whatever valid flags accompany it, parseArgs prints the usage text and ends
\* the process with status 0; nothing is loaded, written or deleted.
C4_HelpExits ==
    (HelpGiven /\ ParseArgsRan)
       => /\ pc = "Exit207"
          /\ exitStatus = 0
          /\ HELP_MESSAGE \in Range(LOGGER.terminal)
          /\ "Loaded" \notin Range(phases)
          /\ files \in InitialFiles

InputDeleted == "ArgsParsed" \in Range(phases) /\ files[inputFilePath].kind = "absent"

C6_UsageOnConsoleOnly ==
    pc = "Exit200"
       => /\ Terminated
          /\ {"Error in arguments!", HELP_MESSAGE} \subseteq Range(LOGGER.terminal)
          /\ \A i \in DOMAIN LOGGER.log :
                LOGGER.log[i].msg \notin {"Error in arguments!", HELP_MESSAGE}

\* What the record calls for in a text column: the source value, or the empty
\* text where it is missing.
ExpectedText(c) == IF c.t = "nan" THEN StrCell("") ELSE c

\* The integer part of a value given in tenths: the integer of the same sign
\* and largest magnitude that does not exceed the value's magnitude.
IntegerPart(x) ==
    CHOOSE k \in -100..100 :
        \/ x >= 0 /\ 10 * k <= x /\ x < 10 * k + 10
        \/ x < 0 /\ 10 * k >= x /\ x > 10 * k - 10

\* What the record calls for in the quantity column.
ExpectedQuantity(c) == IF c.t = "nan" THEN IntCell(0) ELSE IntCell(IntegerPart(c.n))

\* C7: the cleaned table has the records of the source in the same number and
\* order; Site and ItemNumber are the source value, or the empty text where it
\* is missing; QuantityOnHand is the truncated integer of the source value, or
\* 0 where it is missing; the written output has exactly the columns Site,
\* ItemNumber, QuantityOnHand, in that order, with one line per record.
C7_CleanedRecords ==
    /\ pc \in {"Cleaned", "Written"} =>
          /\ Len(data.rows) = Len(sheet.rows)
          /\ \A i \in DOMAIN sheet.rows :
                /\ data.rows[i]["Site"] = ExpectedText(sheet.rows[i]["Site"])
                /\ data.rows[i]["ItemNumber"] = ExpectedText(sheet.rows[i]["ItemNumber"])
                /\ data.rows[i]["QuantityOnHand"] = ExpectedQuantity(sheet.rows[i]["QuantityOnHand"])
    /\ pc = "Written" =>
          LET out == files[outputFilePath].text[1] IN
          /\ out.header = <<"Site", "ItemNumber", "QuantityOnHand">>
          /\ Len(out.rows) = Len(sheet.rows)
          /\ \A i \in DOMAIN out.rows :
                /\ DOMAIN out.rows[i] = 1..3
                /\ out.rows[i][1].s = ExpectedText(sheet.rows[i]["Site"]).s
                /\ out.rows[i][2].s = ExpectedText(sheet.rows[i]["ItemNumber"]).s
                /\ out.rows[i][3].t = "digits"
                /\ out.rows[i][3].n = ExpectedQuantity(sheet.rows[i]["QuantityOnHand"]).n

C7_Witness ==
    /\ pc = "Written"
    /\ Len(sheet.rows) = 2
    /\ sheet.cols = <<"QuantityOnHand", "Extra", "Site", "ItemNumber">>
    /\ sheet.rows[1]["QuantityOnHand"] = NaN
    /\ sheet.rows[1]["Site"] = NaN
    /\ sheet.rows[2]["QuantityOnHand"] = FloatCell(-15)
    /\ sheet.rows[2]["ItemNumber"] = NaN
    /\ data.rows[2]["QuantityOnHand"] = IntCell(-1)

AllowList == {<<",">>, <<"\t">>, <<":">>, <<"|">>, <<" ">>}

\* The call logged exactly one entry, a warning (the log held its header).
OneWarningLogged ==
    /\ Len(LOGGER.log) = 2
    /\ LOGGER.log[2].ind = "W"

\* C8: for every delimiter longer than one character once the two character
\* tab escape stands for the tab, validateDelimiter logs one warning and
\* returns the comma, whatever the caller's default.
C8_LongDelimiterGivesComma ==
    (/\ pc = "vd_ret"
     /\ Len(vdArgs.delimiter) > 1
     /\ vdArgs.delimiter # <<"\\", "t">>)
       => (vdRet = <<",">> /\ OneWarningLogged)

C8_Witness ==
    /\ pc = "vd_ret"
    /\ vdArgs.delimiter = <<";", ";">>
    /\ vdArgs.defaultDilimiter = <<"\t">>
    /\ vdRet = <<",">>
    /\ OneWarningLogged

C10_ListedReturnedUnchanged ==
    (pc = "vd_ret" /\ vdArgs.delimiter \in AllowList) => vdRet = vdArgs.delimiter

C10_Witness ==
    /\ pc = "vd_ret"
    /\ vdArgs.delimiter = <<" ">>
    /\ vdArgs.defaultDilimiter = <<";">>
    /\ vdRet = <<" ">>
    /\ Len(LOGGER.log) = 1

\* The output path the command line asks for: the value of its last output
\* option, or the platform default when it has none.
RECURSIVE LastOutput(_, _)
LastOutput(units, current) ==
    IF units = <<>> \/ Head(units) = Positional THEN current
    ELSE LastOutput(Tail(units),
                    IF Head(units).opt \in {"-o", "--output"} THEN Head(units).path ELSE current)

RequestedOutput == LastOutput(argv, "~/Downloads/gsp_inventory.tsv")

\* The directory a path lies in exists; a bare file name lies in the working
\* directory, which exists.
OutputDirectoryExists(p) ==
    IF p = "o.tsv" THEN TRUE
    ELSE \/ p \in {"/tmp", "/nodir", "~/Downloads"}
         \/ p \in {"/tmp/o.tsv", "/tmp/a.xls"} /\ files["/tmp"].kind = "dir"
         \/ p = "/nodir/o.tsv" /\ files["/nodir"].kind = "dir"
         \/ p = "~/Downloads/gsp_inventory.tsv" /\ files["~/Downloads"].kind = "dir"

OutputWarnings ==
    {i \in DOMAIN LOGGER.log :
        LOGGER.log[i].ind = "W" /\ LOGGER.log[i].msg = "Invalid output file path"}

\* C11: when parseArgs has validated the output path (the run went on to
\* ArgsParsed): if the directory of the requested output path does not exist
\* or the path is itself a directory, one warning was logged and the effective
\* output path is the platform default; in every other case the requested
\* path is the effective output path and no such warning was logged.
C11_OutputFallback ==
    pc = "ArgsParsed" =>
        IF ~OutputDirectoryExists(RequestedOutput) \/ files[RequestedOutput].kind = "dir"
        THEN /\ outputFilePath = "~/Downloads/gsp_inventory.tsv"
             /\ Cardinality(OutputWarnings) = 1
        ELSE /\ outputFilePath = RequestedOutput
             /\ Cardinality(OutputWarnings) = 0

\* The command line carries the verbose flag.
VerboseFlagGiven == \E i \in DOMAIN argv : argv[i].opt \in {"-v", "--verbose"}

\* The messages of the entries writeLog appended to the log file, in order.
RECURSIVE LoggedMessages(_)
LoggedMessages(log) ==
    IF log = <<>> THEN <<>>
    ELSE IF Head(log).ind \in {"N", "W", "X", "!"}
         THEN <<Head(log).msg>> \o LoggedMessages(Tail(log))
         ELSE LoggedMessages(Tail(log))

\* What the console shows that is no output of print.
RECURSIVE EchoedMessages(_)
EchoedMessages(terminal) ==
    IF terminal = <<>> THEN <<>>
    ELSE IF Head(terminal) \in {"HELP_MESSAGE", "Error in arguments!", "\n"}
         THEN EchoedMessages(Tail(terminal))
         ELSE <<Head(terminal)>> \o EchoedMessages(Tail(terminal))

\* C12: every entry given to writeLog is in the log file whatever the verbose
\* setting, and is echoed to the console exactly when the run was invoked
\* with the verbose flag: with the flag the console shows every entry of the
\* run, those written before and during option parsing included, and without
\* it none.
C12_EchoIffVerboseFlag ==
    (pc \notin {"Import", "Crashed"}) =>
        IF VerboseFlagGiven
        THEN EchoedMessages(LOGGER.terminal) = LoggedMessages(LOGGER.log)
        ELSE EchoedMessages(LOGGER.terminal) = <<>>

\* C13: whenever a run reaches Done (input and output path the same or not,
\* preserve flag set or not), a file exists at the effective output path and
\* holds the serialized table of three columns, one line per record.
C13_OutputExistsAtDone ==
    pc = "Done" =>
        /\ files[outputFilePath].kind = "file"
        /\ Len(files[outputFilePath].text) = 1
        /\ files[outputFilePath].text[1].header = <<"Site", "ItemNumber", "QuantityOnHand">>
        /\ Len(files[outputFilePath].text[1].rows) = Len(data.rows)

=============================================================================
